---------------------------- MODULE Spec2Model ----------------------------
(***************************************************************************)
(* TermView: the ANSI terminal-buffer engine of TermViewProvider           *)
(* (getAnsiHtml: tokenizer, interpreter, style-run renderer), the webview  *)
(* script's reconstructAnsi/processNode, and the provider's event          *)
(* handlers (resolveCustomTextEditor) with the isUpdatingFromWebview flag. *)
(*                                                                         *)
(* Raw text is a sequence of characters; a character is a one-element      *)
(* string, with the control characters named: "ESC" (\x1b), "BEL" (\x07),  *)
(* "LF" (\n), "CR" (\r), "BS" (\b).  Indices into text are 1-based;        *)
(* lastIndex counts the characters consumed so far, as in JavaScript.      *)
(***************************************************************************)
EXTENDS Integers, Sequences, FiniteSets, TLC

\* ------------------------------------------------------------ characters
ESC == "ESC"
BEL == "BEL"
LF == "LF"
CR == "CR"
BS == "BS"
BSLASH == "\\"

Digits == {"0", "1", "2", "3", "4", "5", "6", "7", "8", "9"}

\* [0-9;?]
IsParamChar(c) == c \in Digits \cup {";", "?"}

\* [a-zA-Z]
Letters ==
    {"a", "b", "c", "d", "e", "f", "g", "h", "i", "j", "k", "l", "m",
     "n", "o", "p", "q", "r", "s", "t", "u", "v", "w", "x", "y", "z",
     "A", "B", "C", "D", "E", "F", "G", "H", "I", "J", "K", "L", "M",
     "N", "O", "P", "Q", "R", "S", "T", "U", "V", "W", "X", "Y", "Z"}

IsLetter(c) == c \in Letters

\* the characters the regex '.' does not match: \n, \r, U+2028 ("LS") and
\* U+2029 ("PS")
IsLineTerminator(c) == c \in {LF, CR, "LS", "PS"}

\* [\r\n\b]
IsControlChar(c) == c \in {CR, LF, BS}

\* [^\x1b\r\n\b]
IsTextChar(c) == c \notin {ESC, CR, LF, BS}

Min(S) == CHOOSE x \in S : \A y \in S : x <= y
Max(S) == CHOOSE x \in S : \A y \in S : x >= y

RECURSIVE Flatten(_)
Flatten(ss) == IF ss = <<>> THEN <<>> ELSE Head(ss) \o Flatten(Tail(ss))

\* ------------------------------------------------------------- tokenizer
\* CsiEnd with the match ending before the final letter
CsiEndBeforeFinal(t, s) ==
    IF s + 1 > Len(t) \/ t[s] # ESC \/ t[s + 1] # "[" THEN 0
    ELSE LET stops == {k \in (s + 2)..Len(t) : ~IsParamChar(t[k])}
         IN IF stops = {} THEN 0
            ELSE IF IsLetter(t[Min(stops)]) THEN Min(stops) - 1 ELSE 0

\* Alternative 1 at position s: \x1b\[[0-9;?]*[a-zA-Z].  The index of the
\* final letter, or 0 when the alternative does not match at s.
CsiEnd(t, s) ==
    IF s + 1 > Len(t) \/ t[s] # ESC \/ t[s + 1] # "[" THEN 0
    ELSE LET stops == {k \in (s + 2)..Len(t) : ~IsParamChar(t[k])}
         IN IF stops = {} THEN 0
            ELSE IF IsLetter(t[Min(stops)]) THEN Min(stops) ELSE 0

\* Where a terminator (\x07 or \x1b\\) starts at or after position from.
TerminatorStarts(t, from) ==
    {k \in from..Len(t) :
        t[k] = BEL \/ (t[k] = ESC /\ k + 1 <= Len(t) /\ t[k + 1] = BSLASH)}

\* OscEnd with an unterminated sequence running to the end of the input
OscEndToEndOfInput(t, s) ==
    IF s + 1 > Len(t) \/ t[s] # ESC \/ t[s + 1] # "]" THEN 0
    ELSE LET terms == TerminatorStarts(t, s + 2)
         IN IF terms = {} THEN Len(t)
            ELSE LET k == Min(terms)
                 IN IF \E j \in (s + 2)..(k - 1) : IsLineTerminator(t[j]) THEN 0
                    ELSE IF t[k] = BEL THEN k ELSE k + 1

\* Alternative 2 at position s: \x1b\].*?(?:\x07|\x1b\\).  The lazy '.*?' stops
\* at the first terminator and '.' does not cross a line terminator.
OscEnd(t, s) ==
    IF s + 1 > Len(t) \/ t[s] # ESC \/ t[s + 1] # "]" THEN 0
    ELSE LET terms == TerminatorStarts(t, s + 2)
         IN IF terms = {} THEN 0
            ELSE LET k == Min(terms)
                 IN IF \E j \in (s + 2)..(k - 1) : IsLineTerminator(t[j]) THEN 0
                    ELSE IF t[k] = BEL THEN k ELSE k + 1

\* Alternative 3 at position s: \x1b[=>]
KeypadEnd(t, s) ==
    IF s + 1 <= Len(t) /\ t[s] = ESC /\ t[s + 1] \in {"=", ">"} THEN s + 1 ELSE 0

\* Alternative 4 at position s: [\r\n\b]
ControlEnd(t, s) == IF IsControlChar(t[s]) THEN s ELSE 0

\* Alternative 5 at position s: [^\x1b\r\n\b]+ (greedy)
TextEnd(t, s) ==
    IF ~IsTextChar(t[s]) THEN 0
    ELSE LET stops == {k \in s..Len(t) : ~IsTextChar(t[k])}
         IN IF stops = {} THEN Len(t) ELSE Min(stops) - 1

NoMatch == [group |-> 0, start |-> 0, end |-> 0, str |-> <<>>]

\* The match of tokenRegex at exactly position s (alternatives in order).
MatchAt(t, s) ==
    LET mk(g, e) == [group |-> g, start |-> s, end |-> e, str |-> SubSeq(t, s, e)]
        csi == CsiEnd(t, s)
        osc == OscEnd(t, s)
        keypad == KeypadEnd(t, s)
    IN IF t[s] = ESC
       THEN IF csi # 0 THEN mk(1, csi)
            ELSE IF osc # 0 THEN mk(2, osc)
            ELSE IF keypad # 0 THEN mk(3, keypad)
            ELSE NoMatch
       ELSE IF ControlEnd(t, s) # 0 THEN mk(4, s)
       ELSE mk(5, TextEnd(t, s))

\* The leftmost match that starts at position s or later.
RECURSIVE MatchFrom(_, _)
MatchFrom(t, s) ==
    IF s > Len(t) THEN NoMatch
    ELSE IF MatchAt(t, s).group # 0 THEN MatchAt(t, s)
    ELSE MatchFrom(t, s + 1)

\* tokenRegex.exec(text) with the given lastIndex: the leftmost match that
\* starts after lastIndex characters, or NoMatch (null).
RegexExec(t, li) == MatchFrom(t, li + 1)

\* ----------------------------------------------------------- interpreter
\* A cell written by erase or padding: { char: ' ', style: '' }
Blank == [char |-> " ", style |-> <<>>]

\* '\x1b[0m', the only SGR that resets the style
ResetCode == <<ESC, "[", "0", "m">>

\* The state a parse starts from: linesBuffer = [[]], cursor (0,0), style ''
FreshState == [linesBuffer |-> << <<>> >>, cursorX |-> 0, cursorY |-> 0,
               currentStyle |-> <<>>]

DigitVal(c) == CHOOSE n \in 0..9 : c = <<"0", "1", "2", "3", "4", "5", "6", "7", "8", "9">>[n + 1]

\* The value of a run of digits, digit by digit.
RECURSIVE ParseDecimal(_)
ParseDecimal(ds) ==
    IF ds = <<>> THEN 0
    ELSE 10 * ParseDecimal(SubSeq(ds, 1, Len(ds) - 1)) + DigitVal(ds[Len(ds)])

\* The digits without leading zeros.
RECURSIVE Significant(_)
Significant(ds) ==
    IF ds # <<>> /\ Head(ds) = "0" THEN Significant(Tail(ds)) ELSE ds

\* The number written by the digits is larger than 4294967295 = 2^32 - 1, the
\* largest length a JavaScript array can have.
ExceedsArrayLength(ds) ==
    LET sig == Significant(ds)
    IN \/ Len(sig) > 10
       \/ /\ Len(sig) = 10
          /\ \/ ParseDecimal(SubSeq(sig, 1, 9)) > 429496729
             \/ /\ ParseDecimal(SubSeq(sig, 1, 9)) = 429496729
                /\ DigitVal(sig[10]) > 5

\* Numbers above 2^32 - 1 are not told apart: Beyond stands for each of them,
\* and sums are cut off at it.
Beyond == 10 ^ 9

Saturate(n) == IF n >= Beyond THEN Beyond ELSE n

\* parseInt(param[0])
ParseInt(ds) == IF ExceedsArrayLength(ds) THEN Beyond ELSE ParseDecimal(ds)

\* ansiCode.match(/\d+/): the first run of digits, as a character sequence;
\* <<>> stands for null.
FirstDigits(code) ==
    LET ds == {k \in 1..Len(code) : code[k] \in Digits}
    IN IF ds = {} THEN <<>>
       ELSE LET b == Min(ds)
                stops == {k \in b..Len(code) : code[k] \notin Digits}
                e == IF stops = {} THEN Len(code) ELSE Min(stops) - 1
            IN SubSeq(code, b, e)

\* param ? parseInt(param[0]) : dflt
ParamOr(code, dflt) ==
    IF FirstDigits(code) = <<>> THEN dflt ELSE ParseInt(FirstDigits(code))

EndsWith(code, c) == Len(code) > 0 /\ code[Len(code)] = c

\* line.splice(x): drop the cells from column x on
SpliceFrom(line, x) == SubSeq(line, 1, IF x < Len(line) THEN x ELSE Len(line))

\* line.splice(x, count): remove count cells starting at column x
SpliceCount(line, x, count) ==
    LET b == IF x < Len(line) THEN x ELSE Len(line)
        n == IF count < Len(line) - b THEN count ELSE Len(line) - b
    IN SubSeq(line, 1, b) \o SubSeq(line, b + n + 1, Len(line))

\* controlChar branch
ControlCharStep(st, c) ==
    IF c = LF
    THEN LET y == st.cursorY + 1
         IN [st EXCEPT !.cursorY = y, !.cursorX = 0,
                       !.linesBuffer = IF y + 1 > Len(st.linesBuffer)
                                       THEN Append(st.linesBuffer, <<>>)
                                       ELSE st.linesBuffer]
    ELSE IF c = CR THEN [st EXCEPT !.cursorX = 0]
    ELSE IF c = BS THEN [st EXCEPT !.cursorX = Max({0, st.cursorX - 1})]
    ELSE st

\* SelectGraphicRendition with the sequence replacing the style
SelectGraphicRenditionReplaces(st, code) ==
    IF code = ResetCode THEN [st EXCEPT !.currentStyle = <<>>]
    ELSE [st EXCEPT !.currentStyle = code]

\* ansiCode.endsWith('m')
SelectGraphicRendition(st, code) ==
    IF code = ResetCode THEN [st EXCEPT !.currentStyle = <<>>]
    ELSE [st EXCEPT !.currentStyle = st.currentStyle \o code]

\* EraseInLine with mode 1 blanking the cell at the cursor column too
EraseInLineBlanksCursorCell(st, code) ==
    LET mode == ParamOr(code, 0)
        y == st.cursorY + 1
        line == st.linesBuffer[y]
    IN IF mode = 0
       THEN [st EXCEPT !.linesBuffer[y] = SpliceFrom(line, st.cursorX)]
       ELSE IF mode = 1
       THEN [st EXCEPT !.linesBuffer[y] =
                [i \in 1..Len(line) |-> IF i - 1 <= st.cursorX THEN Blank ELSE line[i]]]
       ELSE IF mode = 2 THEN [st EXCEPT !.linesBuffer[y] = <<>>]
       ELSE st

\* EraseInLine with mode 0 emptying the whole row
EraseInLineClearsRow(st, code) ==
    LET mode == ParamOr(code, 0)
        y == st.cursorY + 1
        line == st.linesBuffer[y]
    IN IF mode = 0
       THEN [st EXCEPT !.linesBuffer[y] = <<>>]
       ELSE IF mode = 1
       THEN [st EXCEPT !.linesBuffer[y] =
                [i \in 1..Len(line) |-> IF i - 1 < st.cursorX THEN Blank ELSE line[i]]]
       ELSE IF mode = 2 THEN [st EXCEPT !.linesBuffer[y] = <<>>]
       ELSE st

\* ansiCode.endsWith('K')
EraseInLine(st, code) ==
    LET mode == ParamOr(code, 0)
        y == st.cursorY + 1
        line == st.linesBuffer[y]
    IN IF mode = 0
       THEN [st EXCEPT !.linesBuffer[y] = SpliceFrom(line, st.cursorX)]
       ELSE IF mode = 1
       THEN [st EXCEPT !.linesBuffer[y] =
                [i \in 1..Len(line) |-> IF i - 1 < st.cursorX THEN Blank ELSE line[i]]]
       ELSE IF mode = 2 THEN [st EXCEPT !.linesBuffer[y] = <<>>]
       ELSE st

\* EraseInDisplay with mode 2 resetting the style too
EraseInDisplayResetsStyle(st, code) ==
    LET mode == ParamOr(code, 0)
        y == st.cursorY + 1
    IN IF mode = 0
       THEN [st EXCEPT !.linesBuffer =
                [i \in 1..Len(st.linesBuffer) |->
                    IF i < y THEN st.linesBuffer[i]
                    ELSE IF i = y THEN SpliceFrom(st.linesBuffer[y], st.cursorX)
                    ELSE <<>>]]
       ELSE IF mode = 2
       THEN [st EXCEPT !.linesBuffer = << <<>> >>, !.cursorX = 0, !.cursorY = 0,
                       !.currentStyle = <<>>]
       ELSE st

\* EraseInDisplay with mode 0 removing the rows after the current one
EraseInDisplayDropsRows(st, code) ==
    LET mode == ParamOr(code, 0)
        y == st.cursorY + 1
    IN IF mode = 0
       THEN [st EXCEPT !.linesBuffer =
                [i \in 1..y |->
                    IF i < y THEN st.linesBuffer[i]
                    ELSE SpliceFrom(st.linesBuffer[y], st.cursorX)]]
       ELSE IF mode = 2
       THEN [st EXCEPT !.linesBuffer = << <<>> >>, !.cursorX = 0, !.cursorY = 0]
       ELSE st

\* EraseInDisplay with mode 2 leaving the cursor where it is
EraseInDisplayKeepsCursor(st, code) ==
    LET mode == ParamOr(code, 0)
        y == st.cursorY + 1
    IN IF mode = 0
       THEN [st EXCEPT !.linesBuffer =
                [i \in 1..Len(st.linesBuffer) |->
                    IF i < y THEN st.linesBuffer[i]
                    ELSE IF i = y THEN SpliceFrom(st.linesBuffer[y], st.cursorX)
                    ELSE <<>>]]
       ELSE IF mode = 2
       THEN [st EXCEPT !.linesBuffer = << <<>> >>]
       ELSE st

\* ansiCode.endsWith('J')
EraseInDisplay(st, code) ==
    LET mode == ParamOr(code, 0)
        y == st.cursorY + 1
    IN IF mode = 0
       THEN [st EXCEPT !.linesBuffer =
                [i \in 1..Len(st.linesBuffer) |->
                    IF i < y THEN st.linesBuffer[i]
                    ELSE IF i = y THEN SpliceFrom(st.linesBuffer[y], st.cursorX)
                    ELSE <<>>]]
       ELSE IF mode = 2
       THEN [st EXCEPT !.linesBuffer = << <<>> >>, !.cursorX = 0, !.cursorY = 0]
       ELSE st

\* DeleteCharacter removing one cell whatever the parameter
DeleteCharacterOne(st, code) ==
    LET y == st.cursorY + 1
    IN [st EXCEPT !.linesBuffer[y] = SpliceCount(st.linesBuffer[y], st.cursorX, 1)]

\* ansiCode.endsWith('P')
DeleteCharacter(st, code) ==
    LET y == st.cursorY + 1
    IN [st EXCEPT !.linesBuffer[y] =
            SpliceCount(st.linesBuffer[y], st.cursorX, ParamOr(code, 1))]

\* CursorUp without the clamp at row 0
CursorUpUnclamped(st, count) == [st EXCEPT !.cursorY = st.cursorY - count]

\* cursor up: Math.max(0, cursorY - count)
CursorUp(st, count) == [st EXCEPT !.cursorY = Max({0, st.cursorY - count})]

\* cursor down: cursorY += count; while (linesBuffer.length <= cursorY) push([])
CursorDown(st, count) ==
    LET y == Saturate(st.cursorY + count)
        need == IF Len(st.linesBuffer) <= y THEN y + 1 - Len(st.linesBuffer) ELSE 0
    IN [st EXCEPT !.cursorY = y,
                  !.linesBuffer = st.linesBuffer \o [i \in 1..need |-> <<>>]]

\* cursor back: Math.max(0, cursorX - count)
CursorBack(st, count) == [st EXCEPT !.cursorX = Max({0, st.cursorX - count})]

\* cursor forward: cursorX += count (the row is not padded)
CursorForward(st, count) == [st EXCEPT !.cursorX = Saturate(st.cursorX + count)]

\* CursorMove with every other final letter moving the cursor forward
CursorMoveDefaultForward(st, code) ==
    LET count == ParamOr(code, 1)
    IN IF EndsWith(code, "A") THEN CursorUp(st, count)
       ELSE IF EndsWith(code, "B") THEN CursorDown(st, count)
       ELSE IF EndsWith(code, "D") THEN CursorBack(st, count)
       ELSE CursorForward(st, count)

\* the final else of the CSI dispatch: A, B, D, C, anything else no effect
CursorMove(st, code) ==
    LET count == ParamOr(code, 1)
    IN IF EndsWith(code, "A") THEN CursorUp(st, count)
       ELSE IF EndsWith(code, "B") THEN CursorDown(st, count)
       ELSE IF EndsWith(code, "D") THEN CursorBack(st, count)
       ELSE IF EndsWith(code, "C") THEN CursorForward(st, count)
       ELSE st

\* else if (ansiCode) { ... }
AnsiCodeStep(st, code) ==
    IF EndsWith(code, "m") THEN SelectGraphicRendition(st, code)
    ELSE IF EndsWith(code, "K") THEN EraseInLine(st, code)
    ELSE IF EndsWith(code, "J") THEN EraseInDisplay(st, code)
    ELSE IF EndsWith(code, "P") THEN DeleteCharacter(st, code)
    ELSE CursorMove(st, code)

\* WriteChar inserting the cell at the cursor column instead of storing it there
WriteCharInserts(st, c) ==
    LET y == st.cursorY + 1
        line == st.linesBuffer[y]
        padded == IF Len(line) < st.cursorX
                  THEN line \o [i \in 1..(st.cursorX - Len(line)) |-> Blank]
                  ELSE line
        cell == [char |-> c, style |-> st.currentStyle]
        written == SubSeq(padded, 1, st.cursorX) \o <<cell>>
                   \o SubSeq(padded, st.cursorX + 1, Len(padded))
    IN [st EXCEPT !.linesBuffer[y] = written, !.cursorX = st.cursorX + 1]

\* One round of the for loop of the text branch: pad the row up to the cursor
\* column, store the cell at the cursor column, advance the cursor.
WriteChar(st, c) ==
    LET y == st.cursorY + 1
        line == st.linesBuffer[y]
        padded == IF Len(line) < st.cursorX
                  THEN line \o [i \in 1..(st.cursorX - Len(line)) |-> Blank]
                  ELSE line
        cell == [char |-> c, style |-> st.currentStyle]
        written == IF st.cursorX < Len(padded)
                   THEN [padded EXCEPT ![st.cursorX + 1] = cell]
                   ELSE Append(padded, cell)
    IN [st EXCEPT !.linesBuffer[y] = written, !.cursorX = st.cursorX + 1]

\* else if (textPart) { for (const char of textPart) ... }
RECURSIVE TextPartStep(_, _)
TextPartStep(st, chars) ==
    IF chars = <<>> THEN st
    ELSE TextPartStep(WriteChar(st, Head(chars)), Tail(chars))

\* The body of the loop throws for match m in state st.  A push that would
\* make an array longer than 2^32 - 1 throws a RangeError (if the memory lasts
\* that far): the text branch has to pad the row (line.push) up to a cursor
\* column beyond that length, or cursor down has to push rows up to a cursor
\* row beyond it.
PushThrows(st, m) ==
    \/ /\ m.group = 5
       /\ st.cursorX >= Beyond
    \/ /\ m.group = 1
       /\ EndsWith(m.str, "B")
       /\ Saturate(st.cursorY + ParamOr(m.str, 1)) >= Beyond

\* The body of the while loop for one match (that does not throw).
ProcessMatch(st, m) ==
    IF m.group \in {2, 3} THEN st
    ELSE IF m.group = 4 THEN ControlCharStep(st, m.str[1])
    ELSE IF m.group = 1 THEN AnsiCodeStep(st, m.str)
    ELSE IF m.group = 5 THEN TextPartStep(st, m.str)
    ELSE st

\* The whole while loop, from the given lastIndex: the state when exec
\* returns null.
RECURSIVE RunLoop(_, _, _)
RunLoop(t, li, st) ==
    LET m == RegexExec(t, li)
    IN IF m.group = 0 THEN st ELSE RunLoop(t, m.end, ProcessMatch(st, m))

\* The interpreter part of getAnsiHtml as a function of the document text.
ParseText(t) == RunLoop(t, 0, FreshState)

\* ----------------------------------------------------- style-run renderer
\* str.replace(/c/g, rep) for a one-character pattern c
RECURSIVE ReplaceChar(_, _, _)
ReplaceChar(chars, c, rep) ==
    IF chars = <<>> THEN <<>>
    ELSE (IF Head(chars) = c THEN rep ELSE <<Head(chars)>>)
         \o ReplaceChar(Tail(chars), c, rep)

\* EscapeHtml with '&' replaced last
EscapeHtmlAmpersandLast(chars) ==
    ReplaceChar(ReplaceChar(ReplaceChar(chars, "<", <<"&", "l", "t", ";">>),
                            ">", <<"&", "g", "t", ";">>),
                "&", <<"&", "a", "m", "p", ";">>)

\* escapedText: '&' -> '&amp;', then '<' -> '&lt;', then '>' -> '&gt;'
EscapeHtml(chars) ==
    ReplaceChar(ReplaceChar(ReplaceChar(chars, "&", <<"&", "a", "m", "p", ";">>),
                            "<", <<"&", "l", "t", ";">>),
                ">", <<"&", "g", "t", ";">>)

\* currentSpanAnsi.replace(/\x1b/g, '\\x1b'): the escape character becomes the
\* four characters \ x 1 b in the data-ansi attribute
EncodeAnsi(style) == ReplaceChar(style, ESC, <<BSLASH, "x", "1", "b">>)

\* flushSpan: a span is appended only when it has text; dataAnsi <<>> stands
\* for a span without the data-ansi attribute
FlushSpan(acc) ==
    IF acc.spanText = <<>> THEN acc
    ELSE [acc EXCEPT
            !.spans = Append(acc.spans, [kind |-> "SPAN",
                                         text |-> EscapeHtml(acc.spanText),
                                         dataAnsi |-> EncodeAnsi(acc.spanAnsi)]),
            !.spanText = <<>>]

\* RenderCell flushing the span before every cell
RenderCellFlushAlways(acc, cell) ==
    LET a == [FlushSpan(acc) EXCEPT !.spanAnsi = cell.style]
    IN [a EXCEPT !.spanText = Append(a.spanText, cell.char)]

\* One round of 'for (const cell of line)'
RenderCell(acc, cell) ==
    LET a == IF cell.style # acc.spanAnsi
             THEN [FlushSpan(acc) EXCEPT !.spanAnsi = cell.style]
             ELSE acc
    IN [a EXCEPT !.spanText = Append(a.spanText, cell.char)]

RECURSIVE RenderCells(_, _)
RenderCells(acc, cells) ==
    IF cells = <<>> THEN acc
    ELSE RenderCells(RenderCell(acc, Head(cells)), Tail(cells))

\* The callback of linesBuffer.map: one <div class="line"> with its spans, or
\* with a <br> when the row produced no span.
RenderLine(line) ==
    LET acc == FlushSpan(RenderCells([spans |-> <<>>, spanAnsi |-> <<>>,
                                      spanText |-> <<>>], line))
    IN [kind |-> "DIV", spans |-> acc.spans, br |-> acc.spans = <<>>]

\* linesBuffer.map(...).join(''): the line elements of the content
RenderGrid(lines) == [y \in 1..Len(lines) |-> RenderLine(lines[y])]

\* getAnsiHtml(document)
GetAnsiHtml(t) == RenderGrid(ParseText(t).linesBuffer)

\* ------------------------------------------------- escape reconstructor
\* What the webview reads back from the markup the renderer wrote: the text of
\* a span with the character references &amp; &lt; &gt; resolved
RECURSIVE InnerText(_)
InnerText(h) ==
    IF h = <<>> THEN <<>>
    ELSE IF Len(h) >= 5 /\ SubSeq(h, 1, 5) = <<"&", "a", "m", "p", ";">>
    THEN <<"&">> \o InnerText(SubSeq(h, 6, Len(h)))
    ELSE IF Len(h) >= 4 /\ SubSeq(h, 1, 4) = <<"&", "l", "t", ";">>
    THEN <<"<">> \o InnerText(SubSeq(h, 5, Len(h)))
    ELSE IF Len(h) >= 4 /\ SubSeq(h, 1, 4) = <<"&", "g", "t", ";">>
    THEN <<">">> \o InnerText(SubSeq(h, 5, Len(h)))
    ELSE <<Head(h)>> \o InnerText(Tail(h))

\* dataAnsi.replace(/\\x1b/g, '\x1b'): the four characters \ x 1 b become the
\* escape character
RECURSIVE DecodeAnsi(_)
DecodeAnsi(a) ==
    IF a = <<>> THEN <<>>
    ELSE IF Len(a) >= 4 /\ SubSeq(a, 1, 4) = <<BSLASH, "x", "1", "b">>
    THEN <<ESC>> \o DecodeAnsi(SubSeq(a, 5, Len(a)))
    ELSE <<Head(a)>> \o DecodeAnsi(Tail(a))

\* ProcessSpan without the '\x1b[0m' after a tagged run
ProcessSpanNoReset(span) ==
    (IF span.dataAnsi # <<>> THEN DecodeAnsi(span.dataAnsi) ELSE <<>>)
    \o InnerText(span.text)

\* ProcessSpan with '\x1b[0m' after every run, tagged or not
ProcessSpanAlwaysReset(span) ==
    (IF span.dataAnsi # <<>> THEN DecodeAnsi(span.dataAnsi) ELSE <<>>)
    \o InnerText(span.text)
    \o ResetCode

\* processNode, a SPAN child: the tag when there is one, the text, and
\* '\x1b[0m' when there is a tag
ProcessSpan(span) ==
    (IF span.dataAnsi # <<>> THEN DecodeAnsi(span.dataAnsi) ELSE <<>>)
    \o InnerText(span.text)
    \o (IF span.dataAnsi # <<>> THEN ResetCode ELSE <<>>)

\* A node of the content is a record with its kind: "SPAN" (text, dataAnsi),
\* "TEXT" (text), or an element with children ("DIV", "B"; its children are
\* in the field spans, and br says that it has a BR child, which contributes
\* nothing).  Text is kept as markup, as the renderer writes it.
\* childNodes.forEach of processNode: a SPAN gives its tag, text and reset, a
\* text node its textContent, any other element what processNode gives for it
RECURSIVE ProcessNode(_)
RECURSIVE ProcessChildren(_)
ProcessChildren(spans) ==
    IF spans = <<>> THEN <<>>
    ELSE (IF Head(spans).kind = "SPAN" THEN ProcessSpan(Head(spans))
          ELSE IF Head(spans).kind = "TEXT" THEN InnerText(Head(spans).text)
          ELSE ProcessNode(Head(spans)))
         \o ProcessChildren(Tail(spans))

ProcessNode(node) == ProcessChildren(node.spans)

\* querySelectorAll('.line, div') finds an element among the nodes or below
\* them
RECURSIVE HasLineElement(_)
HasLineElement(nodes) ==
    \E k \in 1..Len(nodes) :
        /\ nodes[k].kind \notin {"SPAN", "TEXT"}
        /\ (nodes[k].kind = "DIV" \/ HasLineElement(nodes[k].spans))

\* the elements found whose parentElement is the content
LineElements(content) == SelectSeq(content, LAMBDA n : n.kind = "DIV")

\* processedLines.join('\n')
RECURSIVE JoinLines(_)
JoinLines(ls) ==
    IF ls = <<>> THEN <<>>
    ELSE IF Len(ls) = 1 THEN ls[1]
    ELSE ls[1] \o <<LF>> \o JoinLines(Tail(ls))

\* reconstructAnsi(): content is the sequence of the child nodes of #content;
\* with no line element in it the content node itself is processed
ReconstructAnsi(content) ==
    IF ~HasLineElement(content) THEN ProcessChildren(content)
    ELSE LET lines == LineElements(content)
         IN JoinLines([y \in 1..Len(lines) |-> ProcessNode(lines[y])])

\* ------------------------------------------------------------------ state
VARIABLES
    text,                   \* document.getText() of the render being modelled
    lastIndex,              \* tokenRegex.lastIndex
    match,                  \* the match the loop processed last (NoMatch: null)
    linesBuffer,            \* rows of cells { char, style }
    cursorX,
    cursorY,
    currentStyle,           \* concatenated SGR sequences
    pc,                     \* "loop", "rendered", "reconstructed"; "error" when
                            \* getAnsiHtml threw; "edited" and "lowered" in
                            \* SpecEdit; "idle" in SpecHost
    html,                   \* the content of the webview: the rendered lines
    reconstructed,          \* the text reconstructAnsi() returned
    isUpdatingFromWebview,  \* the provider's flag, one for all its editors
    docText,                \* per document: its text
    updates,                \* applyEdit calls awaited by 'update' handlers, in call order
    hostEvents,             \* what the extension host has still to be told, in order
    webviewHtml,            \* per document: the html its webview was given last
    lastChange              \* the change event the listener handled last, and what it did

coreVars == <<text, lastIndex, match, linesBuffer, cursorX, cursorY, currentStyle,
              pc, html, reconstructed>>
hostVars == <<isUpdatingFromWebview, docText, updates, hostEvents, webviewHtml,
              lastChange>>
vars == <<coreVars, hostVars>>

\* ----------------------------------------------------------------- inputs
\* The documents rendered are built from at most MaxPieces pieces.
MaxPieces == 3

SGR1 == <<ESC, "[", "1", "m">>
SGREmpty == <<ESC, "[", "m">>
EL0 == <<ESC, "[", "K">>
EL1 == <<ESC, "[", "1", "K">>
EL2 == <<ESC, "[", "2", "K">>
ED0 == <<ESC, "[", "J">>
ED2 == <<ESC, "[", "2", "J">>
DCH == <<ESC, "[", "P">>
CUU == <<ESC, "[", "A">>
CUD == <<ESC, "[", "B">>
CUF2 == <<ESC, "[", "2", "C">>
CUB == <<ESC, "[", "D">>
PrivateMode == <<ESC, "[", "?", "h">>
OscOpen == <<ESC, "]">>
StringTerminator == <<ESC, BSLASH>>
KeypadApp == <<ESC, "=">>

Pieces ==
    { <<"a">>, <<"<">>, <<LF>>, <<CR>>, <<BS>>,
      SGR1, SGREmpty, ResetCode,
      EL0, EL1, EL2, ED0, ED2, DCH,
      CUU, CUD, CUF2, CUB, PrivateMode,
      OscOpen, <<BEL>>, StringTerminator, KeypadApp }

\* The documents and the texts of the host model.
Docs == {"A", "B"}
HostTexts == {<<"a">>, SGR1 \o <<"a">>}

\* At most MaxUpdates 'update' handlers are awaiting applyEdit at once, and an
\* external change waits for room among MaxEvents undelivered events.
MaxUpdates == 2
MaxEvents == 2

NoChange == [doc |-> "none", ownUpdates |-> 0, rendered |-> FALSE]

\* The provider before any event: every document holds "a" and is shown
IdleText == [d \in Docs |-> <<"a">>]
IdleHtml == [d \in Docs |-> GetAnsiHtml(IdleText[d])]

HostIdle ==
    /\ isUpdatingFromWebview = FALSE
    /\ docText = IdleText
    /\ updates = <<>>
    /\ hostEvents = <<>>
    /\ webviewHtml = IdleHtml
    /\ lastChange = NoChange

\* getAnsiHtml is entered with a document text: the loop starts from a fresh
\* grid, cursor and style.
Init ==
    /\ \E n \in 0..MaxPieces : \E ps \in [1..n -> Pieces] : text = Flatten(ps)
    /\ lastIndex = 0
    /\ match = NoMatch
    /\ linesBuffer = FreshState.linesBuffer
    /\ cursorX = FreshState.cursorX
    /\ cursorY = FreshState.cursorY
    /\ currentStyle = FreshState.currentStyle
    /\ pc = "loop"
    /\ html = <<>>
    /\ reconstructed = <<>>
    /\ HostIdle

\* Documents that exercise the erase, delete and write operations: rows of two
\* cells, two rows, parameters given explicitly and left out, and CSI
\* sequences with other final letters.
TwoCells == <<"a", "b">>
TwoRows == <<"a", "b", LF, "c">>
EL0Explicit == <<ESC, "[", "0", "K">>
ED0Explicit == <<ESC, "[", "0", "J">>
DCH0 == <<ESC, "[", "0", "P">>
DCH2 == <<ESC, "[", "2", "P">>
CursorPosition == <<ESC, "[", "2", ";", "2", "H">>
LowerCaseA == <<ESC, "[", "2", "a">>

GridPieces ==
    { TwoCells, <<"c">>, TwoRows, <<LF>>, <<CR>>,
      SGR1, CUF2, CUB, CUU,
      EL0, EL0Explicit, EL1, EL2, ED0, ED0Explicit, ED2,
      DCH, DCH0, DCH2,
      PrivateMode, CursorPosition, LowerCaseA, KeypadApp }

InitGrid ==
    /\ \E n \in 0..MaxPieces : \E ps \in [1..n -> GridPieces] : text = Flatten(ps)
    /\ lastIndex = 0
    /\ match = NoMatch
    /\ linesBuffer = FreshState.linesBuffer
    /\ cursorX = FreshState.cursorX
    /\ cursorY = FreshState.cursorY
    /\ currentStyle = FreshState.currentStyle
    /\ pc = "loop"
    /\ html = <<>>
    /\ reconstructed = <<>>
    /\ HostIdle

\* ------------------------------------------------------ getAnsiHtml: loop
Current == [linesBuffer |-> linesBuffer, cursorX |-> cursorX, cursorY |-> cursorY,
            currentStyle |-> currentStyle]

Becomes(st) ==
    /\ linesBuffer' = st.linesBuffer
    /\ cursorX' = st.cursorX
    /\ cursorY' = st.cursorY
    /\ currentStyle' = st.currentStyle

\* while ((match = tokenRegex.exec(text)) !== null): one round, for a match
\* m that changes the state to st
LoopRound(m, st) ==
    /\ match' = m
    /\ lastIndex' = m.end
    /\ Becomes(st)
    /\ UNCHANGED <<text, pc, html, reconstructed, hostVars>>

\* if (oscSequence || keypadMode) { }
IgnoreToken ==
    /\ pc = "loop"
    /\ RegexExec(text, lastIndex).group \in {2, 3}
    /\ LoopRound(RegexExec(text, lastIndex), Current)

\* else if (controlChar)
ControlChar ==
    /\ pc = "loop"
    /\ RegexExec(text, lastIndex).group = 4
    /\ LoopRound(RegexExec(text, lastIndex),
                 ControlCharStep(Current, RegexExec(text, lastIndex).str[1]))

\* else if (ansiCode)
AnsiCode ==
    /\ pc = "loop"
    /\ RegexExec(text, lastIndex).group = 1
    /\ ~PushThrows(Current, RegexExec(text, lastIndex))
    /\ LoopRound(RegexExec(text, lastIndex),
                 AnsiCodeStep(Current, RegexExec(text, lastIndex).str))

\* else if (textPart)
TextPart ==
    /\ pc = "loop"
    /\ RegexExec(text, lastIndex).group = 5
    /\ ~PushThrows(Current, RegexExec(text, lastIndex))
    /\ LoopRound(RegexExec(text, lastIndex),
                 TextPartStep(Current, RegexExec(text, lastIndex).str))

\* exec returns null (and resets lastIndex); the rows are rendered and the
\* html is what the webview shows
RenderLines ==
    /\ pc = "loop"
    /\ RegexExec(text, lastIndex) = NoMatch
    /\ match' = NoMatch
    /\ lastIndex' = 0
    /\ html' = RenderGrid(linesBuffer)
    /\ pc' = "rendered"
    /\ UNCHANGED <<text, linesBuffer, cursorX, cursorY, currentStyle, reconstructed,
                   hostVars>>

\* The webview's input handler, with the content as rendered or as the user
\* edited it: reconstructAnsi()
Reconstruct ==
    /\ pc \in {"rendered", "edited"}
    /\ reconstructed' = ReconstructAnsi(html)
    /\ pc' = IF pc = "rendered" THEN "reconstructed" ELSE "lowered"
    /\ UNCHANGED <<text, lastIndex, match, linesBuffer, cursorX, cursorY,
                   currentStyle, html, hostVars>>

Next ==
    \/ IgnoreToken
    \/ ControlChar
    \/ AnsiCode
    \/ TextPart
    \/ RenderLines
    \/ Reconstruct

Spec == Init /\ [][Next]_vars

SpecGrid == InitGrid /\ [][Next]_vars

\* ------------------------------------------- getAnsiHtml: very large counts
\* Documents with cursor movements whose count is 2^32.
HugeForward == <<ESC, "[", "4", "2", "9", "4", "9", "6", "7", "2", "9", "6", "C">>
HugeDown == <<ESC, "[", "4", "2", "9", "4", "9", "6", "7", "2", "9", "6", "B">>

LimitPieces ==
    { <<"a">>, <<LF>>, <<CR>>, SGR1, CUF2, CUD, EL1, ED0, DCH, KeypadApp,
      HugeForward, HugeDown }

InitLimits ==
    /\ \E n \in 0..MaxPieces : \E ps \in [1..n -> LimitPieces] : text = Flatten(ps)
    /\ lastIndex = 0
    /\ match = NoMatch
    /\ linesBuffer = FreshState.linesBuffer
    /\ cursorX = FreshState.cursorX
    /\ cursorY = FreshState.cursorY
    /\ currentStyle = FreshState.currentStyle
    /\ pc = "loop"
    /\ html = <<>>
    /\ reconstructed = <<>>
    /\ HostIdle

\* line.push or linesBuffer.push throws: the exception leaves the loop and
\* getAnsiHtml, nothing is rendered
ThrowRangeError ==
    /\ pc = "loop"
    /\ RegexExec(text, lastIndex).group # 0
    /\ PushThrows(Current, RegexExec(text, lastIndex))
    /\ match' = RegexExec(text, lastIndex)
    /\ pc' = "error"
    /\ UNCHANGED <<text, lastIndex, linesBuffer, cursorX, cursorY, currentStyle,
                   html, reconstructed, hostVars>>

NextLimits ==
    \/ Next
    \/ ThrowRangeError

SpecLimits == InitLimits /\ [][NextLimits]_vars

\* ------------------------------------------------- webview: edited content
\* What the content of the webview can hold after the user edited it, built
\* from at most MaxNodes nodes: runs with and without a tag, the characters
\* \x1b[1m typed as text, text nodes, a nested element, and line elements.
MaxNodes == 3

PlainSpan == [kind |-> "SPAN", text |-> <<"a">>, dataAnsi |-> <<>>]
TypedEscapeSpan == [kind |-> "SPAN", text |-> <<BSLASH, "x", "1", "b", "[", "1", "m">>,
                    dataAnsi |-> <<>>]
TaggedSpan == [kind |-> "SPAN", text |-> <<"a">>, dataAnsi |-> EncodeAnsi(SGR1)]
TextNode == [kind |-> "TEXT", text |-> <<"b">>]
MarkupTextNode == [kind |-> "TEXT", text |-> <<"&", "l", "t", ";">>]
BoldElement == [kind |-> "B", spans |-> <<TextNode>>, br |-> FALSE]
EmptyLine == [kind |-> "DIV", spans |-> <<>>, br |-> TRUE]

EditNodes ==
    {PlainSpan, TypedEscapeSpan, TaggedSpan, TextNode, MarkupTextNode, BoldElement,
     EmptyLine}

\* The content the nodes make in document order: a line element opens a new
\* line, any other node goes into the line opened last, or into the content
\* itself when there is none yet.
RECURSIVE BuildContent(_, _)
BuildContent(content, nodes) ==
    IF nodes = <<>> THEN content
    ELSE LET n == Head(nodes)
             last == Len(content)
         IN IF n.kind # "DIV" /\ last > 0 /\ content[last].kind = "DIV"
            THEN BuildContent(
                    [content EXCEPT ![last] =
                        [kind |-> "DIV", spans |-> Append(content[last].spans, n),
                         br |-> FALSE]],
                    Tail(nodes))
            ELSE BuildContent(Append(content, n), Tail(nodes))

\* The user has edited the content; the debounced input handler is to run.
InitEdit ==
    /\ text = <<>>
    /\ lastIndex = 0
    /\ match = NoMatch
    /\ linesBuffer = FreshState.linesBuffer
    /\ cursorX = 0
    /\ cursorY = 0
    /\ currentStyle = <<>>
    /\ pc = "edited"
    /\ \E n \in 0..MaxNodes : \E ns \in [1..n -> EditNodes] : html = BuildContent(<<>>, ns)
    /\ reconstructed = <<>>
    /\ HostIdle

NextEdit == Reconstruct

SpecEdit == InitEdit /\ [][NextEdit]_vars

\* ------------------------------------------------- provider event handlers
\* One provider serves an editor for each document of Docs (register creates a
\* single TermViewProvider); the editors stay open.  An 'update' handler is in
\* flight from its 'isUpdatingFromWebview = true' until its await returns: its
\* applyEdit call is in updates, or the outcome of the call is in hostEvents.
\* The change event of an applied edit reaches the extension host before the
\* outcome of the applyEdit call does.
UpdatesInFlight(d) ==
    Cardinality({i \in 1..Len(updates) : updates[i].doc = d})
    + Cardinality({i \in 1..Len(hostEvents) :
                      hostEvents[i].kind # "change" /\ hostEvents[i].doc = d})

AllUpdatesInFlight ==
    Len(updates)
    + Cardinality({i \in 1..Len(hostEvents) : hostEvents[i].kind # "change"})

\* resolveCustomTextEditor has run for every document: updateWebview(.., true)
InitHost ==
    /\ text = <<>>
    /\ lastIndex = 0
    /\ match = NoMatch
    /\ linesBuffer = FreshState.linesBuffer
    /\ cursorX = 0
    /\ cursorY = 0
    /\ currentStyle = <<>>
    /\ pc = "idle"
    /\ html = <<>>
    /\ reconstructed = <<>>
    /\ isUpdatingFromWebview = FALSE
    /\ docText \in [Docs -> HostTexts]
    /\ updates = <<>>
    /\ hostEvents = <<>>
    /\ webviewHtml = [d \in Docs |-> GetAnsiHtml(docText[d])]
    /\ lastChange = NoChange

\* onDidReceiveMessage, case 'update', up to the await: the flag is set and
\* updateTextDocument calls applyEdit with the text of the message
ReceiveUpdate(d, t) ==
    /\ AllUpdatesInFlight < MaxUpdates
    /\ isUpdatingFromWebview' = TRUE
    /\ updates' = Append(updates, [doc |-> d, text |-> t])
    /\ UNCHANGED <<docText, hostEvents, webviewHtml, lastChange, coreVars>>

\* applyEdit replaces the text of the document: its change event is fired and
\* then the call resolves
ApplyEditDone ==
    /\ updates # <<>>
    /\ docText' = [docText EXCEPT ![Head(updates).doc] = Head(updates).text]
    /\ hostEvents' = hostEvents
                     \o <<[kind |-> "change", doc |-> Head(updates).doc],
                          [kind |-> "resolved", doc |-> Head(updates).doc]>>
    /\ updates' = Tail(updates)
    /\ UNCHANGED <<isUpdatingFromWebview, webviewHtml, lastChange, coreVars>>

\* applyEdit resolves to false: the edit was refused, the document is as it was
ApplyEditRefused ==
    /\ updates # <<>>
    /\ hostEvents' = Append(hostEvents, [kind |-> "resolved", doc |-> Head(updates).doc])
    /\ updates' = Tail(updates)
    /\ UNCHANGED <<isUpdatingFromWebview, docText, webviewHtml, lastChange, coreVars>>

\* applyEdit rejects
ApplyEditFailed ==
    /\ updates # <<>>
    /\ hostEvents' = Append(hostEvents, [kind |-> "rejected", doc |-> Head(updates).doc])
    /\ updates' = Tail(updates)
    /\ UNCHANGED <<isUpdatingFromWebview, docText, webviewHtml, lastChange, coreVars>>

\* The document is changed by something other than the webview of its editor
ExternalChange(d, t) ==
    /\ Len(hostEvents) < MaxEvents
    /\ docText' = [docText EXCEPT ![d] = t]
    /\ hostEvents' = Append(hostEvents, [kind |-> "change", doc |-> d])
    /\ UNCHANGED <<isUpdatingFromWebview, updates, webviewHtml, lastChange, coreVars>>

\* updateWebview(webviewPanel, document, false): postMessage of getAnsiHtml
UpdateWebview(d) == webviewHtml' = [webviewHtml EXCEPT ![d] = GetAnsiHtml(docText[d])]

\* onDidChangeTextDocument: the listener of the editor of e.document
OnDidChangeTextDocument ==
    /\ hostEvents # <<>>
    /\ Head(hostEvents).kind = "change"
    /\ IF isUpdatingFromWebview
       THEN UNCHANGED webviewHtml
       ELSE UpdateWebview(Head(hostEvents).doc)
    /\ lastChange' = [doc |-> Head(hostEvents).doc,
                      ownUpdates |-> UpdatesInFlight(Head(hostEvents).doc),
                      rendered |-> ~isUpdatingFromWebview]
    /\ hostEvents' = Tail(hostEvents)
    /\ UNCHANGED <<isUpdatingFromWebview, docText, updates, coreVars>>

\* onDidReceiveMessage after the await: isUpdatingFromWebview = false
AwaitReturns ==
    /\ hostEvents # <<>>
    /\ Head(hostEvents).kind = "resolved"
    /\ isUpdatingFromWebview' = FALSE
    /\ hostEvents' = Tail(hostEvents)
    /\ UNCHANGED <<docText, updates, webviewHtml, lastChange, coreVars>>

\* the await throws: the rest of the handler does not run
AwaitThrows ==
    /\ hostEvents # <<>>
    /\ Head(hostEvents).kind = "rejected"
    /\ hostEvents' = Tail(hostEvents)
    /\ UNCHANGED <<isUpdatingFromWebview, docText, updates, webviewHtml, lastChange,
                   coreVars>>

NextHost ==
    \/ \E d \in Docs, t \in HostTexts : ReceiveUpdate(d, t)
    \/ ApplyEditDone
    \/ ApplyEditRefused
    \/ ApplyEditFailed
    \/ \E d \in Docs, t \in HostTexts : ExternalChange(d, t)
    \/ OnDidChangeTextDocument
    \/ AwaitReturns
    \/ AwaitThrows

SpecHost == InitHost /\ [][NextHost]_vars

\* ------------------------------------------------ successive render calls
\* The provider renders its documents again and again (change events that
\* leave the text as it is, such as a change of the dirty state), one call of
\* getAnsiHtml at a time, each call running the loop step by step.  Between
\* calls the variables of the loop hold what the call before left in them.
CallTexts ==
    { <<"a">>, SGR1 \o <<"a">>, <<"a", LF, "a">>, CUF2 \o <<"a">>, KeypadApp \o <<"a">> }

InitCalls ==
    /\ text = <<>>
    /\ lastIndex = 0
    /\ match = NoMatch
    /\ linesBuffer = FreshState.linesBuffer
    /\ cursorX = 0
    /\ cursorY = 0
    /\ currentStyle = <<>>
    /\ pc = "idle"
    /\ html = <<>>
    /\ reconstructed = <<>>
    /\ isUpdatingFromWebview = FALSE
    /\ docText \in [Docs -> CallTexts]
    /\ updates = <<>>
    /\ hostEvents = <<>>
    /\ webviewHtml = [d \in Docs |-> <<>>]
    /\ lastChange = NoChange

\* EnterGetAnsiHtml with currentStyle kept from the call before
EnterGetAnsiHtmlKeepsStyle ==
    /\ pc = "idle"
    /\ hostEvents # <<>>
    /\ Head(hostEvents).kind = "change"
    /\ ~isUpdatingFromWebview
    /\ text' = docText[Head(hostEvents).doc]
    /\ lastIndex' = 0
    /\ match' = NoMatch
    /\ Becomes([FreshState EXCEPT !.currentStyle = currentStyle])
    /\ pc' = "loop"
    /\ UNCHANGED <<html, reconstructed, hostVars>>

\* The listener calls updateWebview, which enters getAnsiHtml: the text is
\* read and linesBuffer, cursorX, cursorY, currentStyle and tokenRegex are
\* created anew
EnterGetAnsiHtml ==
    /\ pc = "idle"
    /\ hostEvents # <<>>
    /\ Head(hostEvents).kind = "change"
    /\ ~isUpdatingFromWebview
    /\ text' = docText[Head(hostEvents).doc]
    /\ lastIndex' = 0
    /\ match' = NoMatch
    /\ Becomes(FreshState)
    /\ pc' = "loop"
    /\ UNCHANGED <<html, reconstructed, hostVars>>

\* getAnsiHtml returns and updateWebview hands the html to the webview of the
\* document
ReturnHtml ==
    /\ pc = "rendered"
    /\ hostEvents # <<>>
    /\ webviewHtml' = [webviewHtml EXCEPT ![Head(hostEvents).doc] = html]
    /\ hostEvents' = Tail(hostEvents)
    /\ pc' = "idle"
    /\ UNCHANGED <<text, lastIndex, match, linesBuffer, cursorX, cursorY,
                   currentStyle, html, reconstructed, isUpdatingFromWebview,
                   docText, updates, lastChange>>

NextCalls ==
    \/ \E d \in Docs : ExternalChange(d, docText[d])
    \/ EnterGetAnsiHtml
    \/ IgnoreToken
    \/ ControlChar
    \/ AnsiCode
    \/ TextPart
    \/ RenderLines
    \/ ReturnHtml

SpecCalls == InitCalls /\ [][NextCalls]_vars

\* ----------------------------------------------------------------- claims
\* The matches the loop has processed so far, in order.
RECURSIVE MatchesUpTo(_, _, _)
MatchesUpTo(t, from, li) ==
    LET m == RegexExec(t, from)
    IN IF m.group = 0 \/ m.end > li THEN <<>>
       ELSE <<m>> \o MatchesUpTo(t, m.end, li)

AllMatches(t) == MatchesUpTo(t, 0, Len(t))

\* Those of the matches ms that end within the first li characters.
EndingBy(ms, li) == SubSeq(ms, 1, Cardinality({i \in 1..Len(ms) : ms[i].end <= li}))

Processed == EndingBy(AllMatches(text), lastIndex)

IsSgr(m) == m.group = 1 /\ EndsWith(m.str, "m")
IsFullErase(m) == m.group = 1 /\ EndsWith(m.str, "J") /\ ParamOr(m.str, 0) = 2

\* The cells the text run processed last was written to.
WrittenCells ==
    [i \in 1..Len(match.str) |->
        linesBuffer[cursorY + 1][cursorX - Len(match.str) + i]]

\* C1: round trip without edits: parsing the text that reconstructAnsi returns
\* for the unedited rendering gives a grid with the same number of rows and, in
\* every row, the same cells (character and style) in the same order.
C1_RoundTrip ==
    pc = "reconstructed" =>
        LET again == ParseText(reconstructed).linesBuffer
        IN /\ Len(again) = Len(linesBuffer)
           /\ \A y \in 1..Len(linesBuffer) :
                 /\ Len(again[y]) = Len(linesBuffer[y])
                 /\ \A x \in 1..Len(linesBuffer[y]) :
                       /\ again[y][x].char = linesBuffer[y][x].char
                       /\ again[y][x].style = linesBuffer[y][x].style

\* A row with a styled and an unstyled cell went through the round trip, and
\* the reconstructed text is not the text that was parsed.
C1_Witness ==
    /\ pc = "reconstructed"
    /\ reconstructed # text
    /\ \E y \in 1..Len(linesBuffer) :
          \E i, j \in 1..Len(linesBuffer[y]) :
             linesBuffer[y][i].style # <<>> /\ linesBuffer[y][j].style = <<>>

\* C3 as stated: right after an erase-in-display mode 2 token the current
\* style is the empty string.
C3_StyleResetOnFullErase ==
    (pc = "loop" /\ IsFullErase(match)) => currentStyle = <<>>

\* C3 amended: an erase-in-display mode 2 token leaves the current style as it
\* was, and a text run right after it writes cells with that style.
C3_StyleKeptOnFullErase ==
    [][/\ IsFullErase(match') => currentStyle' = currentStyle
       /\ (IsFullErase(match) /\ match'.group = 5) =>
             \A i \in 1..Len(match'.str) :
                linesBuffer'[cursorY' + 1][cursorX' - Len(match'.str) + i].style
                    = currentStyle]_vars

\* Text was written right after a full erase that followed an SGR.
C3_Witness ==
    /\ pc = "loop"
    /\ match.group = 5
    /\ Len(Processed) >= 2
    /\ IsFullErase(Processed[Len(Processed) - 1])
    /\ WrittenCells[1].style # <<>>

\* The SGR sequences since the last '\x1b[0m' among the matches ms, concatenated.
AccumulatedStyle(ms) ==
    LET resets == {i \in 1..Len(ms) : ms[i].str = ResetCode}
        from == IF resets = {} THEN 0 ELSE Max(resets)
    IN Flatten([i \in 1..(Len(ms) - from) |->
                   IF IsSgr(ms[from + i]) THEN ms[from + i].str ELSE <<>>])

NoFullErase(ms) == \A i \in 1..Len(ms) : ~IsFullErase(ms[i])

\* C4: in an input without full-screen erase, after every token the current
\* style is the concatenation, in order, of the SGR tokens since the last token
\* that is exactly '\x1b[0m' (no other token changes it), and the cells a text
\* run writes carry that style.
C4_StyleAccumulation ==
    pc = "loop" =>
        LET ms == AllMatches(text)
            accumulated == AccumulatedStyle(EndingBy(ms, lastIndex))
        IN NoFullErase(ms) =>
              /\ currentStyle = accumulated
              /\ match.group = 5 =>
                    \A i \in 1..Len(match.str) : WrittenCells[i].style = accumulated

\* Text was written with a style made of two SGR sequences.
C4_Witness ==
    /\ pc = "loop"
    /\ NoFullErase(AllMatches(text))
    /\ match.group = 5
    /\ WrittenCells[1].style = SGR1 \o SGREmpty

\* What a line is to be lowered to: per run, lead \o tag \o text \o '\x1b[0m'
\* when the run has a tag, and the text alone when it has none.
LoweredLine(node, lead) ==
    Flatten([k \in 1..Len(node.spans) |->
                IF node.spans[k].dataAnsi # <<>>
                THEN lead \o DecodeAnsi(node.spans[k].dataAnsi)
                     \o InnerText(node.spans[k].text) \o ResetCode
                ELSE InnerText(node.spans[k].text)])

LoweredContent(lead) ==
    JoinLines([y \in 1..Len(html) |-> LoweredLine(html[y], lead)])

\* C5 as stated: a run with a tag is lowered to '\x1b[0m', the tag, the text
\* and '\x1b[0m'; a run without a tag to its text.
C5_ResetTagTextReset ==
    pc = "reconstructed" => reconstructed = LoweredContent(ResetCode)

\* C5 amended: a run with a tag is lowered to the tag, the text and '\x1b[0m',
\* with no reset sequence before the tag; a run without a tag to its text.
C5_TagTextReset ==
    pc = "reconstructed" => reconstructed = LoweredContent(<<>>)

\* A line with a tagged run and an untagged run was lowered.
C5_Witness ==
    /\ pc = "reconstructed"
    /\ \E y \in 1..Len(html) :
          \E j, k \in 1..Len(html[y].spans) :
             html[y].spans[j].dataAnsi # <<>> /\ html[y].spans[k].dataAnsi = <<>>

\* C6: the cursor column and row are never negative and the cursor row is a
\* row of the grid.
C6_CursorInGrid ==
    /\ cursorX >= 0
    /\ cursorY >= 0
    /\ cursorY < Len(linesBuffer)

\* Cursor down extended the grid and the second of two cursor ups was clamped.
C6_Witness ==
    /\ pc = "loop"
    /\ text = CUD \o CUU \o CUU
    /\ lastIndex = Len(text)
    /\ cursorY = 0
    /\ Len(linesBuffer) = 2

\* An OSC sequence as C7 describes it starts at position s: ESC, ']', any
\* characters, and a bell or ESC-backslash somewhere after.
OscSequenceAt(t, s) ==
    /\ s + 1 <= Len(t)
    /\ t[s] = ESC
    /\ t[s + 1] = "]"
    /\ TerminatorStarts(t, s + 2) # {}

OscSequenceEnd(t, s) ==
    LET k == Min(TerminatorStarts(t, s + 2))
    IN IF t[k] = BEL THEN k ELSE k + 1

\* C7: when the loop stands before an OSC sequence (any payload) or a keypad
\* mode sequence, its next round consumes the whole sequence as one token and
\* leaves grid, cursor and style as they are.
C7_OscConsumedWithoutEffect ==
    [][(pc = "loop" /\ (OscSequenceAt(text, lastIndex + 1)
                        \/ KeypadEnd(text, lastIndex + 1) # 0)) =>
          /\ match'.start = lastIndex + 1
          /\ match'.end = IF KeypadEnd(text, lastIndex + 1) # 0
                          THEN lastIndex + 2
                          ELSE OscSequenceEnd(text, lastIndex + 1)
          /\ UNCHANGED <<linesBuffer, cursorX, cursorY, currentStyle>>]_vars

\* An OSC opening with no terminator after it starts at position s.
UnterminatedOscAt(t, s) ==
    /\ s + 1 <= Len(t)
    /\ t[s] = ESC
    /\ t[s + 1] = "]"
    /\ TerminatorStarts(t, s + 2) = {}

\* C8 as stated: an unterminated OSC sequence at the end of the input is
\* dropped: grid, cursor and style end as for the input before it.
C8_UnterminatedOscDropped ==
    pc = "rendered" =>
        \A s \in 1..Len(text) :
            UnterminatedOscAt(text, s) => Current = ParseText(SubSeq(text, 1, s - 1))

\* C8 amended: of an unterminated OSC sequence only the escape character is
\* dropped; ']' and the payload are processed as ordinary input, so grid,
\* cursor and style end as for the input without that escape character.
C8_UnterminatedOscEscapeDropped ==
    pc = "rendered" =>
        \A s \in 1..Len(text) :
            UnterminatedOscAt(text, s) =>
                Current = ParseText(SubSeq(text, 1, s - 1) \o SubSeq(text, s + 1, Len(text)))

\* An input with text, then an unterminated OSC with a payload, was parsed;
\* the ']' is in the grid.
C8_Witness ==
    /\ pc = "rendered"
    /\ \E s \in 2..Len(text) : UnterminatedOscAt(text, s) /\ s + 2 <= Len(text)
    /\ \E y \in 1..Len(linesBuffer) :
          \E x \in 1..Len(linesBuffer[y]) : linesBuffer[y][x].char = "]"

\* Where the k-th run of a rendered line starts in its row.
RunStart(spans, k) ==
    1 + Len(Flatten([j \in 1..(k - 1) |-> InnerText(spans[j].text)]))

\* C10: in the runs rendered for a row no two adjacent runs have the same
\* style, and a run starts exactly at the first cell and at each cell whose
\* style differs from that of the cell before it.
C10_MaximalRuns ==
    pc \in {"rendered", "reconstructed"} =>
        \A y \in 1..Len(linesBuffer) :
            LET spans == html[y].spans
                row == linesBuffer[y]
            IN /\ \A k \in 1..(Len(spans) - 1) :
                     DecodeAnsi(spans[k].dataAnsi) # DecodeAnsi(spans[k + 1].dataAnsi)
               /\ {RunStart(spans, k) : k \in 1..Len(spans)}
                     = {x \in 1..Len(row) : x = 1 \/ row[x].style # row[x - 1].style}

\* A row was rendered as two runs, one of them of two cells.
C10_Witness ==
    /\ pc = "rendered"
    /\ \E y \in 1..Len(html) :
          /\ Len(html[y].spans) = 2
          /\ Len(linesBuffer[y]) = 3

\* C2: a change event handled while an 'update' of its document is in flight
\* does not lead to updateWebview.
C2_LoopSuppression ==
    (lastChange.doc # "none" /\ lastChange.ownUpdates > 0) => ~lastChange.rendered

\* C9: a change event of a document none of whose own updates is in flight
\* leads to updateWebview, whatever is in flight for the other document.
C9_DocumentsIndependent ==
    (lastChange.doc # "none" /\ lastChange.ownUpdates = 0) => lastChange.rendered

\* The literal text of the nodes: the text of the runs and text nodes, in
\* document order.
RECURSIVE LiteralText(_)
LiteralText(nodes) ==
    IF nodes = <<>> THEN <<>>
    ELSE (IF Head(nodes).kind \in {"SPAN", "TEXT"} THEN InnerText(Head(nodes).text)
          ELSE LiteralText(Head(nodes).spans))
         \o LiteralText(Tail(nodes))

\* Some run among the nodes or below them carries a round-trip tag.
RECURSIVE HasTag(_)
HasTag(nodes) ==
    \E k \in 1..Len(nodes) :
        IF nodes[k].kind = "SPAN" THEN nodes[k].dataAnsi # <<>>
        ELSE IF nodes[k].kind = "TEXT" THEN FALSE
        ELSE HasTag(nodes[k].spans)

\* The lines of the edited content: its line elements, or the content itself
\* when it has none.
ContentLines(content) ==
    IF HasLineElement(content) THEN LineElements(content)
    ELSE <<[kind |-> "DIV", spans |-> content, br |-> FALSE]>>

\* C11: when no run of any line of the edited content carries a round-trip
\* tag, the reconstructed text has no escape character and is the literal
\* texts of the lines with one line feed between consecutive lines.
C11_NoInventedStyling ==
    (pc = "lowered" /\ ~HasTag(html)) =>
        LET lines == ContentLines(html)
        IN /\ \A i \in 1..Len(reconstructed) : reconstructed[i] # ESC
           /\ reconstructed = JoinLines([y \in 1..Len(lines) |->
                                            LiteralText(lines[y].spans)])

\* Two lines without a tag were lowered, one of them holding the characters
\* \x1b[1m typed as text.
C11_Witness ==
    /\ pc = "lowered"
    /\ ~HasTag(html)
    /\ Len(html) = 2
    /\ html[1].kind = "DIV"
    /\ html[2] = [kind |-> "DIV", spans |-> <<TypedEscapeSpan>>, br |-> FALSE]
    /\ \E i \in 1..Len(reconstructed) : reconstructed[i] = LF

\* C12: right after an erase-in-display mode 2 token the grid is one empty row
\* and the cursor is at column 0, row 0.
C12_FullEraseResetsGrid ==
    (pc = "loop" /\ IsFullErase(match)) =>
        /\ linesBuffer = << <<>> >>
        /\ cursorX = 0
        /\ cursorY = 0

\* The full erase came after text and a line feed: two rows, cursor in row 1.
C12_Witness ==
    /\ pc = "loop"
    /\ text = <<"a", LF>> \o ED2
    /\ IsFullErase(match)

\* A round of the loop: the token match' is processed in the state before it.
LoopStep == pc = "loop" /\ pc' = "loop"

\* Every row but the current one is as it was, and so is the number of rows.
OtherRowsUnchanged ==
    /\ Len(linesBuffer') = Len(linesBuffer)
    /\ \A r \in 1..Len(linesBuffer) : r # cursorY + 1 => linesBuffer'[r] = linesBuffer[r]

IsEraseInLine(m, mode) == m.group = 1 /\ EndsWith(m.str, "K") /\ ParamOr(m.str, 0) = mode

\* C13: an erase-in-line token with parameter 0 or none, with the cursor at
\* column x in a row of length L, leaves the row with length min(L, x) and its
\* cells below column x as they were, and leaves cursor, style and the other
\* rows unchanged; a text run right after it is written from column x on.
C13_EraseToEndOfLine ==
    [][/\ (LoopStep /\ IsEraseInLine(match', 0)) =>
             LET row == linesBuffer[cursorY + 1]
                 after == linesBuffer'[cursorY + 1]
             IN /\ Len(after) = IF Len(row) < cursorX THEN Len(row) ELSE cursorX
                /\ \A i \in 1..Len(after) : after[i] = row[i]
                /\ OtherRowsUnchanged
                /\ UNCHANGED <<cursorX, cursorY, currentStyle>>
       /\ (LoopStep /\ IsEraseInLine(match, 0) /\ match'.group = 5) =>
             \A i \in 1..Len(match'.str) :
                linesBuffer'[cursorY + 1][cursorX + i].char = match'.str[i]]_vars

\* A row of two cells was cut to one cell with the cursor at column 1.
C13_Witness ==
    /\ pc = "loop"
    /\ text = TwoCells \o CUB \o EL0Explicit
    /\ IsEraseInLine(match, 0)
    /\ cursorX = 1
    /\ linesBuffer = << <<[char |-> "a", style |-> <<>>]>> >>

\* The final letters the CSI dispatch acts on.
RecognizedFinals == {"m", "K", "J", "P", "A", "B", "C", "D"}

\* A CSI sequence (ESC, '[', parameter characters, a letter) with a final
\* letter outside RecognizedFinals starts at position s.
UnrecognizedCsiAt(t, s) ==
    /\ s + 2 <= Len(t)
    /\ t[s] = ESC
    /\ t[s + 1] = "["
    /\ \E e \in (s + 2)..Len(t) :
          /\ \A k \in (s + 2)..(e - 1) : t[k] \in Digits \cup {";", "?"}
          /\ t[e] \in Letters \ RecognizedFinals

UnrecognizedCsiEnd(t, s) ==
    Min({e \in (s + 2)..Len(t) : t[e] \in Letters})

\* C14: when the loop stands before a CSI sequence whose final letter is not
\* one of m, K, J, P, A, B, C, D, its next round consumes the sequence as one
\* token and leaves grid, cursor and style as they are.
C14_UnrecognizedCsiNoOp ==
    [][(pc = "loop" /\ UnrecognizedCsiAt(text, lastIndex + 1)) =>
          /\ match'.group = 1
          /\ match'.start = lastIndex + 1
          /\ match'.end = UnrecognizedCsiEnd(text, lastIndex + 1)
          /\ lastIndex' = match'.end
          /\ UNCHANGED <<linesBuffer, cursorX, cursorY, currentStyle>>]_vars

\* ESC[2;2H was consumed after text and a style: the cursor stayed at column 2.
C14_Witness ==
    /\ pc = "loop"
    /\ text = SGR1 \o TwoCells \o CursorPosition
    /\ match.str = CursorPosition
    /\ cursorX = 2
    /\ currentStyle = SGR1

\* C15: every parse starts from one empty row, cursor (0,0) and style "", and
\* a document rendered again gets the output it got before, as does any
\* document with the same text, whatever was rendered in between.
C15_RenderDeterministic ==
    [][/\ (pc = "idle" /\ pc' = "loop") => (Current' = FreshState /\ lastIndex' = 0)
       /\ \A d \in Docs : webviewHtml[d] # <<>> => webviewHtml'[d] = webviewHtml[d]
       /\ \A d, e \in Docs :
             (webviewHtml'[d] # <<>> /\ webviewHtml'[e] # <<>> /\ docText[d] = docText[e])
                => webviewHtml'[d] = webviewHtml'[e]]_vars

\* Document A is being rendered a second time, its text consumed, and the call
\* before rendered document B, whose text leaves a style, to another output.
C15_Witness ==
    /\ pc = "loop"
    /\ hostEvents # <<>>
    /\ Head(hostEvents).doc = "A"
    /\ lastIndex = Len(text)
    /\ docText["B"] = SGR1 \o <<"a">>
    /\ webviewHtml["A"] # <<>>
    /\ webviewHtml["B"] # <<>>
    /\ webviewHtml["B"] # webviewHtml["A"]
    /\ html = webviewHtml["B"]
    /\ currentStyle = <<>>

\* The five token shapes, as properties of a string of characters.
HasShape(g, str) ==
    LET n == Len(str)
    IN IF g = 1
       THEN /\ n >= 3
            /\ str[1] = ESC
            /\ str[2] = "["
            /\ \A k \in 3..(n - 1) : str[k] \in Digits \cup {";", "?"}
            /\ str[n] \in Letters
       ELSE IF g = 2
       THEN /\ n >= 3
            /\ str[1] = ESC
            /\ str[2] = "]"
            /\ (str[n] = BEL \/ (n >= 4 /\ str[n - 1] = ESC /\ str[n] = BSLASH))
       ELSE IF g = 3
       THEN n = 2 /\ str[1] = ESC /\ str[2] \in {"=", ">"}
       ELSE IF g = 4
       THEN n = 1 /\ str[1] \in {LF, CR, BS}
       ELSE /\ n >= 1
            /\ \A k \in 1..n : str[k] \notin {ESC, LF, CR, BS}

\* C16: every round of the loop finds a token of at least one character that
\* starts after the characters consumed so far and lies within the input, the
\* scan position moves to its end (so it strictly increases and the tokens
\* are in input order and do not overlap), the token has exactly one of the
\* five shapes, and the number of tokens found never exceeds the number of
\* characters consumed.
C16_TokenizationTerminates ==
    [][LoopStep =>
          /\ match'.start > lastIndex
          /\ match'.end >= match'.start
          /\ match'.end <= Len(text)
          /\ lastIndex' = match'.end
          /\ lastIndex' > lastIndex
          /\ match'.str = SubSeq(text, match'.start, match'.end)
          /\ {g \in 1..5 : HasShape(g, match'.str)} = {match'.group}
          /\ Len(EndingBy(AllMatches(text), lastIndex')) <= lastIndex']_vars

\* An escape character that starts no token was passed over, and a text run,
\* a CSI token and a keypad-mode token were found.
C16_Witness ==
    /\ pc = "loop"
    /\ text = StringTerminator \o SGR1 \o KeypadApp
    /\ lastIndex = Len(text)
    /\ Len(Processed) = 3
    /\ Processed[1].start = 2

\* C17: a text run of n characters, with the cursor at column x in a row of
\* length L, leaves the row with length max(L, x + n); columns x .. x+n-1 hold
\* the characters in order with the current style; columns L .. x-1 (when
\* x > L) hold a space with style ""; every other cell of the row and every
\* other row is as before; the cursor column is x + n, the cursor row and the
\* current style are unchanged.
C17_TextWrite ==
    [][(LoopStep /\ match'.group = 5) =>
          LET row == linesBuffer[cursorY + 1]
              after == linesBuffer'[cursorY + 1]
              L == Len(row)
              x == cursorX
              n == Len(match'.str)
          IN /\ Len(after) = IF L > x + n THEN L ELSE x + n
             /\ \A i \in 1..n :
                   after[x + i] = [char |-> match'.str[i], style |-> currentStyle]
             /\ \A c \in (L + 1)..x : after[c] = Blank
             /\ \A c \in 1..L : (c <= x \/ c > x + n) => after[c] = row[c]
             /\ OtherRowsUnchanged
             /\ cursorX' = x + n
             /\ UNCHANGED <<cursorY, currentStyle>>]_vars

\* "c" was written over the first of two cells after a carriage return.
C17_Witness ==
    /\ pc = "loop"
    /\ text = TwoCells \o <<CR>> \o <<"c">>
    /\ match.group = 5
    /\ cursorX = 1
    /\ linesBuffer = << <<[char |-> "c", style |-> <<>>], [char |-> "b", style |-> <<>>]>> >>

IsEraseInDisplay(m, mode) ==
    m.group = 1 /\ EndsWith(m.str, "J") /\ ParamOr(m.str, 0) = mode

\* C18: no token other than erase-in-display mode 2 lowers the number of rows;
\* erase-in-display mode 0 cuts the current row at the cursor column and
\* empties every later row, keeping the number of rows and the earlier rows;
\* erase-in-line mode 2 empties the current row and keeps it.
C18_RowsNeverRemoved ==
    [][LoopStep =>
          LET y == cursorY + 1
              row == linesBuffer[y]
          IN /\ ~IsFullErase(match') => Len(linesBuffer') >= Len(linesBuffer)
             /\ IsEraseInDisplay(match', 0) =>
                   /\ Len(linesBuffer') = Len(linesBuffer)
                   /\ \A r \in 1..(y - 1) : linesBuffer'[r] = linesBuffer[r]
                   /\ linesBuffer'[y] =
                         SubSeq(row, 1, IF Len(row) < cursorX THEN Len(row) ELSE cursorX)
                   /\ \A r \in (y + 1)..Len(linesBuffer) : linesBuffer'[r] = <<>>
             /\ IsEraseInLine(match', 2) =>
                   /\ linesBuffer'[y] = <<>>
                   /\ OtherRowsUnchanged]_vars

\* Erase-in-display mode 0 in the first of two rows: the first row was cut to
\* one cell, the second emptied and kept.
C18_Witness ==
    /\ pc = "loop"
    /\ text = TwoRows \o CUU \o ED0Explicit
    /\ IsEraseInDisplay(match, 0)
    /\ linesBuffer = << <<[char |-> "a", style |-> <<>>]>>, <<>> >>

\* C19: an erase-in-line token with parameter 1, with the cursor at column x
\* in a row of length L, sets the cells of the row at columns below x to a
\* space with style "", keeps the length L and the cells at columns x and
\* above, and leaves cursor, style and the other rows unchanged.
C19_EraseToCursor ==
    [][(LoopStep /\ IsEraseInLine(match', 1)) =>
          LET row == linesBuffer[cursorY + 1]
              after == linesBuffer'[cursorY + 1]
          IN /\ Len(after) = Len(row)
             /\ \A c \in 1..Len(row) :
                   after[c] = IF c - 1 < cursorX THEN Blank ELSE row[c]
             /\ OtherRowsUnchanged
             /\ UNCHANGED <<cursorX, cursorY, currentStyle>>]_vars

\* With the cursor on the second of two cells the first was blanked and the
\* second kept.
C19_Witness ==
    /\ pc = "loop"
    /\ text = TwoCells \o CUB \o EL1
    /\ IsEraseInLine(match, 1)
    /\ cursorX = 1
    /\ linesBuffer = << <<Blank, [char |-> "b", style |-> <<>>]>> >>

IsDeleteCharacter(m) == m.group = 1 /\ EndsWith(m.str, "P")

\* C20: a CSI P token with count c (the parameter, 1 when there is none), with
\* the cursor at column x in a row of length L, removes the cells at columns
\* x .. x+c-1 that exist and moves the cells after them left to column x on;
\* the cells below column x stay, the row has length L - min(c, max(0, L - x)),
\* and cursor, style and the other rows are unchanged.
C20_DeleteCharacter ==
    [][(LoopStep /\ IsDeleteCharacter(match')) =>
          LET row == linesBuffer[cursorY + 1]
              after == linesBuffer'[cursorY + 1]
              L == Len(row)
              x == cursorX
              c == ParamOr(match'.str, 1)
              rest == IF L - x > 0 THEN L - x ELSE 0
              removed == IF c < rest THEN c ELSE rest
          IN /\ Len(after) = L - removed
             /\ \A i \in 1..Len(after) :
                   after[i] = IF i <= x THEN row[i] ELSE row[i + removed]
             /\ OtherRowsUnchanged
             /\ UNCHANGED <<cursorX, cursorY, currentStyle>>]_vars

\* With the cursor at column 0 of a row of two cells the first cell was
\* removed and the second moved to column 0.
C20_Witness ==
    /\ pc = "loop"
    /\ text = TwoCells \o <<CR>> \o DCH
    /\ IsDeleteCharacter(match)
    /\ cursorX = 0
    /\ linesBuffer = << <<[char |-> "b", style |-> <<>>]>> >>

\* C21: when no 'update' is in flight (every handler has finished, whether
\* applyEdit resolved, was refused or failed), isUpdatingFromWebview is false.
C21_FlagReturnsToIdle ==
    AllUpdatesInFlight = 0 => ~isUpdatingFromWebview

\* The characters a cell can hold: those of the text that a text run can
\* contain, and the space of a blank cell.
CellChars == {text[i] : i \in {k \in 1..Len(text) : IsTextChar(text[k])}} \cup {" "}

\* A style string: empty, or SGR sequences one after another.
IsStyleString(style) ==
    style = <<>> \/ (style[1] = ESC /\ style[Len(style)] = "m")

\* C22: at every point of the parse every row below the number of rows and
\* every cell below a row's length is there, a cell holding one character and
\* a style string; the cursor row is a row of the grid; the renderer puts
\* every cell of every row into the output; and getAnsiHtml never ends in an
\* error.
C22_GapFreeNoError ==
    /\ pc # "error"
    /\ cursorY >= 0
    /\ cursorY < Len(linesBuffer)
    /\ \A y \in 1..Len(linesBuffer) :
          \A x \in 1..Len(linesBuffer[y]) :
             /\ linesBuffer[y][x].char \in CellChars
             /\ IsStyleString(linesBuffer[y][x].style)
    /\ pc = "rendered" =>
          /\ Len(html) = Len(linesBuffer)
          /\ \A y \in 1..Len(linesBuffer) :
                LiteralText(html[y].spans)
                    = [x \in 1..Len(linesBuffer[y]) |-> linesBuffer[y][x].char]

=============================================================================
